---- MODULE Spec2Model ----
(***************************************************************************)
(* Review retrieval of api_earth_footprint: the quota-gated, file-backed   *)
(* ApifyService, the in-memory cached GoogleMapsService variants and the   *)
(* chain of scraping approaches of scrapeLiveReviews.                      *)
(*                                                                         *)
(* A behaviour exercises one service (svc, fixed by Init).  A getReviews   *)
(* call is a sequence of steps, one per stretch of code between two        *)
(* awaits; `call[c]` holds the position and the locals of caller c,        *)
(* together with what the call has observed so far.                        *)
(***************************************************************************)
EXTENDS Integers, Sequences, FiniteSets, TLC

VARIABLES
    svc,            \* the service under exercise: "apify", "gms", "static", "live",
                    \* "web" and "webkey" (with GOOGLE_MAPS_API_KEY set), and the
                    \* mail routes of "server" (server.js) and "app" (part_000)
    env,            \* process.env: the email settings, each an option
    http,           \* the POST request being handled, with what it has observed
    now,            \* Date.now() / new Date().getTime(), in milliseconds
    lastFetchTime,  \* ApifyService.lastFetchTime (0 stands for null: both are falsy)
    cachedReviews,  \* ApifyService.cachedReviews, an option
    file,           \* the document at REVIEWS_FILE_PATH
    cache,          \* GoogleMapsService.cache, the entry under its one key, an option
    activeRequests, \* GoogleMapsService.activeRequests has 'reviews': a scrape is pending
    cacheMap,       \* the GoogleMapsService.cache of the web service, entry per key
    tried,          \* scrapeLiveReviews: the approaches invoked so far, with outcomes
    call,           \* per caller: position, locals and observations of its getReviews call
    streak,         \* history: the run of successful getReviews(true) calls in one day
    hist            \* history: live fetches started today (when counted), and what
                    \* the last successful fetch persisted

vars == <<svc, env, http, now, lastFetchTime, cachedReviews, file, cache,
          activeRequests, cacheMap, tried, call, streak, hist>>

mailVars == <<env, http>>

apifyVars == <<lastFetchTime, cachedReviews, file, streak>>
gmsVars == <<cache, activeRequests, cacheMap, tried>>

----------------------------------------------------------------------------
(* Options: null / undefined is the empty tuple, a value x is <<x>>. *)

NULL == <<>>

Some(x) == <<x>>

IsNull(o) == o = <<>>

Val(o) == o[1]

----------------------------------------------------------------------------
(* Bounds of the model. *)

\* callers whose getReviews calls are followed
NumCallers == 2

\* clock ticks a behaviour may take
MaxTicks == 2

\* days of a month in the model's calendar
DaysPerMonth == 2

\* length of the run of successful forced refreshes that is followed
MaxStreak == 3

\* getReviews calls that may overlap in one behaviour
MaxCalls == 3

Callers == 1..NumCallers

----------------------------------------------------------------------------
(* Program constants. *)

CACHE_DURATION == 24 * 60 * 60 * 1000

DAILY_LIMIT == 10

MONTHLY_LIMIT == 300

\* this.cacheTimeout: 30 minutes in the scraping GoogleMapsService, 2 minutes
\* in the one that serves the static scraped reviews
cacheTimeout ==
    IF svc = "static" THEN 2 * 60 * 1000
    ELSE IF svc \in {"web", "webkey"} THEN 5 * 60 * 1000
    ELSE 30 * 60 * 1000

\* a UTC day, as toISOString() cuts it
MsPerDay == 24 * 60 * 60 * 1000

\* one clock tick: half of the service's cache lifetime
TickMs == IF svc = "apify" THEN CACHE_DURATION \div 2 ELSE cacheTimeout \div 2

\* the instant a behaviour starts at: the first millisecond of month 2
StartMs == 2 * DaysPerMonth * MsPerDay

----------------------------------------------------------------------------
(* The clock and the calendar.  new Date(t).toISOString() is the record of *)
(* the month number, the day in the month and the millisecond in the day;  *)
(* new Date(iso).getTime() composes them back.                             *)

toISOString(t) ==
    [ym |-> (t \div MsPerDay) \div DaysPerMonth,
     d  |-> (t \div MsPerDay) % DaysPerMonth,
     ms |-> t % MsPerDay]

getTime(iso) == (iso.ym * DaysPerMonth + iso.d) * MsPerDay + iso.ms

\* toISOString().split('T')[0]: YYYY-MM-DD
getCurrentDateString(t) == <<toISOString(t).ym, toISOString(t).d>>

\* toISOString().substring(0, 7): YYYY-MM
getCurrentMonthString(t) == toISOString(t).ym

----------------------------------------------------------------------------
(* Reviews.  An upstream item carries name, stars and text; a missing or  *)
(* empty field is "" (0 for stars), which `||` treats alike.               *)

Item(n, s, t) == [name |-> n, stars |-> s, text |-> t]

\* what the Apify dataset may hold after a run
Payloads ==
    { <<>>,
      <<Item("Ali", 4, "very good office")>>,
      <<Item("", 0, "fast and precise work"), Item("Sara", 3, "")>> }

transformOne(review, index) ==
    [id |-> <<"apify_review", index>>,
     name |-> IF review.name = "" THEN "Google user" ELSE review.name,
     rating |-> IF review.stars = 0 THEN 5 ELSE review.stars,
     review |-> review.text,
     source |-> "Google Maps (Apify)"]

transformReviews(apifyData) ==
    [i \in 1..Len(apifyData) |-> transformOne(apifyData[i], i - 1)]

----------------------------------------------------------------------------
(* The persisted document.  exists = FALSE is a missing file: readFile     *)
(* throws.  valid = FALSE is a file whose content is not JSON (truncated,  *)
(* overwritten): JSON.parse throws, and no field can be read from it.      *)

NoFile ==
    [exists |-> FALSE, valid |-> FALSE, timestamp |-> NULL, reviews |-> NULL,
     dailyCount |-> NULL, monthlyCount |-> NULL]

CorruptFile == [NoFile EXCEPT !.exists = TRUE]

\* JSON.parse(fsSync.readFileSync(REVIEWS_FILE_PATH, 'utf8')) does not throw
readable(f) == f.exists /\ f.valid

\* the document saveReviewsToFile builds: no dailyCount, no monthlyCount
\* mutant: the document is written without the reviews
savedDocument_WithoutReviews(reviews, t) ==
    [exists |-> TRUE, valid |-> TRUE, timestamp |-> Some(toISOString(t)), reviews |-> NULL,
     dailyCount |-> NULL, monthlyCount |-> NULL]

savedDocument(reviews, t) ==
    [exists |-> TRUE, valid |-> TRUE, timestamp |-> Some(toISOString(t)), reviews |-> Some(reviews),
     dailyCount |-> NULL, monthlyCount |-> NULL]

\* mutant: the daily limit is applied without comparing the stored date
dailyLimitReached_AnyDay(f, t) ==
    /\ ~IsNull(f.dailyCount)
    /\ Val(f.dailyCount).count >= DAILY_LIMIT

\* mutant: a count equal to the limit still lets the call through
dailyLimitReached_Exclusive(f, t) ==
    /\ ~IsNull(f.dailyCount)
    /\ Val(f.dailyCount).date = getCurrentDateString(t)
    /\ Val(f.dailyCount).count > DAILY_LIMIT

\* data.dailyCount && data.dailyCount.date === today && count >= DAILY_LIMIT
dailyLimitReached(f, t) ==
    /\ ~IsNull(f.dailyCount)
    /\ Val(f.dailyCount).date = getCurrentDateString(t)
    /\ Val(f.dailyCount).count >= DAILY_LIMIT

monthlyLimitReached(f, t) ==
    /\ ~IsNull(f.monthlyCount)
    /\ Val(f.monthlyCount).month = getCurrentMonthString(t)
    /\ Val(f.monthlyCount).count >= MONTHLY_LIMIT

\* mutant: without counter data no call is allowed
canMakeApiCall_FailsClosed(f, t) ==
    IF ~readable(f) THEN FALSE
    ELSE IF dailyLimitReached(f, t) THEN FALSE
    ELSE IF monthlyLimitReached(f, t) THEN FALSE
    ELSE TRUE

canMakeApiCall(f, t) ==
    IF ~readable(f) THEN TRUE
    ELSE IF dailyLimitReached(f, t) THEN FALSE
    ELSE IF monthlyLimitReached(f, t) THEN FALSE
    ELSE TRUE

updatedDaily(f, t) ==
    IF IsNull(f.dailyCount) \/ Val(f.dailyCount).date # getCurrentDateString(t)
    THEN [date |-> getCurrentDateString(t), count |-> 1]
    ELSE [Val(f.dailyCount) EXCEPT !.count = @ + 1]

\* mutant: the monthly counter restarts whenever the daily one does
updatedMonthly_ResetsWithDay(f, t) ==
    IF \/ IsNull(f.monthlyCount)
       \/ Val(f.monthlyCount).month # getCurrentMonthString(t)
       \/ IsNull(f.dailyCount)
       \/ Val(f.dailyCount).date # getCurrentDateString(t)
    THEN [month |-> getCurrentMonthString(t), count |-> 1]
    ELSE [Val(f.monthlyCount) EXCEPT !.count = @ + 1]

updatedMonthly(f, t) ==
    IF IsNull(f.monthlyCount) \/ Val(f.monthlyCount).month # getCurrentMonthString(t)
    THEN [month |-> getCurrentMonthString(t), count |-> 1]
    ELSE [Val(f.monthlyCount) EXCEPT !.count = @ + 1]

\* the document updateCounters writes; a missing file starts from {}
updateCounters(f, t) ==
    [f EXCEPT !.exists = TRUE, !.valid = TRUE,
              !.dailyCount = Some(updatedDaily(f, t)),
              !.monthlyCount = Some(updatedMonthly(f, t))]

\* what loadReviewsFromFile returns
loadedReviews(f) ==
    IF ~readable(f) \/ IsNull(f.reviews) THEN <<>> ELSE Val(f.reviews)

\* loadReviewsFromFile takes the file's reviews as the cache entry
fileIsFresh(f, t) ==
    /\ readable(f)
    /\ ~IsNull(f.timestamp)
    /\ t - getTime(Val(f.timestamp)) < CACHE_DURATION

\* mutant: an entry exactly CACHE_DURATION old still counts as valid
isCacheValid_Inclusive(lft, t) ==
    IF lft = 0 THEN FALSE ELSE (t - lft) <= CACHE_DURATION

isCacheValid(lft, t) ==
    IF lft = 0 THEN FALSE ELSE (t - lft) < CACHE_DURATION

----------------------------------------------------------------------------
(* The record of one getReviews call.                                      *)
(*   pc          where the call stands: "idle", an await, or "done"        *)
(*   forceRefresh, fileReviews, freshReviews   the arguments and locals    *)
(*   result      how the call completed: returned data, or threw           *)
(*   hit         the call took the valid-cache return                      *)
(*   live        live fetches the call has started                         *)
(*   gate        the document and instant canMakeApiCall was evaluated on, *)
(*               and its answer                                            *)
(*   upstream    what its live fetch produced: "error", "empty", "items"   *)
(*   updated     the document updateCounters read, when it was called      *)
(*   saved       the document before and after saveReviewsToFile          *)
(*   wfail       a write of the document failed during the call            *)
(*   pre         the state the call started in                             *)

NoResult == [kind |-> "none", data |-> <<>>]

\* a live Apify fetch is outstanding
FetchInFlight == \E d \in Callers : call[d].pc = "fetch"

Snapshot ==
    [now |-> now, lastFetchTime |-> lastFetchTime, cachedReviews |-> cachedReviews,
     file |-> file, cache |-> cache, busy |-> FetchInFlight,
     written |-> hist.written, active |-> activeRequests]

IdleCall ==
    [pc |-> "idle", forceRefresh |-> FALSE, fileReviews |-> <<>>, freshReviews |-> <<>>,
     result |-> NoResult, hit |-> FALSE, live |-> 0, gate |-> NULL,
     upstream |-> "none", updated |-> NULL, saved |-> NULL, wfail |-> FALSE,
     pre |-> [now |-> 0, lastFetchTime |-> 0, cachedReviews |-> NULL,
              file |-> NoFile, cache |-> NULL, busy |-> FALSE, written |-> NULL,
              active |-> FALSE]]

NewCall(force) == [IdleCall EXCEPT !.forceRefresh = force, !.pre = Snapshot]

Return(rec, data) ==
    [rec EXCEPT !.pc = "done", !.result = [kind |-> "ret", data |-> data]]

Throw(rec) ==
    [rec EXCEPT !.pc = "done", !.result = [kind |-> "throw", data |-> <<>>]]

CanStart(c) == call[c].pc \in {"idle", "done"}

\* the results of the completed calls have been handed to their callers
Delivered == [c \in Callers |-> IF call[c].pc = "done" THEN IdleCall ELSE call[c]]

----------------------------------------------------------------------------
(* History of the run of consecutive getReviews(true) calls, all within   *)
(* one day, whose live fetch returned reviews and whose writes succeeded:  *)
(* n is its length, daily0 and monthly0 the counts before its first call.  *)

\* the count a counter holds for the period of instant t
dailyCountAt(f, t) ==
    IF ~IsNull(f.dailyCount) /\ Val(f.dailyCount).date = getCurrentDateString(t)
    THEN Val(f.dailyCount).count ELSE 0

monthlyCountAt(f, t) ==
    IF ~IsNull(f.monthlyCount) /\ Val(f.monthlyCount).month = getCurrentMonthString(t)
    THEN Val(f.monthlyCount).count ELSE 0

NoStreak == [n |-> 0, day |-> <<0, 0>>, daily0 |-> 0, monthly0 |-> 0]

SuccessfulRefresh(rec) ==
    /\ rec.forceRefresh
    /\ rec.upstream = "items"
    /\ ~rec.wfail
    /\ getCurrentDateString(rec.pre.now) = getCurrentDateString(now)

StreakAfter(rec) ==
    IF rec.pc # "done" THEN streak
    ELSE IF ~SuccessfulRefresh(rec) THEN NoStreak
    ELSE IF streak.n > 0 /\ streak.n < MaxStreak /\ streak.day = getCurrentDateString(now)
    THEN [streak EXCEPT !.n = @ + 1]
    ELSE [n |-> 1, day |-> getCurrentDateString(now),
          daily0 |-> dailyCountAt(rec.pre.file, rec.pre.now),
          monthly0 |-> monthlyCountAt(rec.pre.file, rec.pre.now)]

\* history of the live fetches: n of them were started on `day` (counted up
\* to one past DAILY_LIMIT) by `calls` getReviews calls (counted up to
\* MaxCalls), both only where `counting` is set; `written` is what the last
\* fetch that saved its reviews and recorded itself persisted
NoHist(counting) ==
    [counting |-> counting, day |-> <<0, 0>>, n |-> 0, calls |-> 0, written |-> NULL]

CallStarted ==
    IF hist.counting /\ hist.calls < MaxCalls
    THEN [hist EXCEPT !.calls = @ + 1] ELSE hist

Persisted(reviews, f) ==
    [reviews |-> reviews, dailyCount |-> f.dailyCount, monthlyCount |-> f.monthlyCount]

FetchStarted ==
    IF ~hist.counting THEN hist
    ELSE IF hist.day = getCurrentDateString(now)
    THEN [hist EXCEPT !.n = IF @ <= DAILY_LIMIT THEN @ + 1 ELSE @]
    ELSE [hist EXCEPT !.day = getCurrentDateString(now), !.n = 1]

----------------------------------------------------------------------------
(* ApifyService.getReviews *)

\* the catch block up to its await: the cache of any age, else the file again
Caught(rec, cached) ==
    IF ~IsNull(cached) THEN Return(rec, Val(cached))
    ELSE [rec EXCEPT !.pc = "catchLoad"]

\* the cache entry after loadReviewsFromFile has read document f
cachedAfterLoad(f) ==
    IF fileIsFresh(f, now) THEN f.reviews ELSE cachedReviews

lastFetchAfterLoad(f) ==
    IF fileIsFresh(f, now) THEN getTime(Val(f.timestamp)) ELSE lastFetchTime

\* !forceRefresh && this.isCacheValid() && this.cachedReviews
returnsCached(force, lft, cached, t) ==
    ~force /\ isCacheValid(lft, t) /\ ~IsNull(cached)

\* mutant: the reviews of the document end the call even under forceRefresh
returnsFileReviews_IgnoresForce(fileReviews, force) == Len(fileReviews) > 0

\* fileReviews.length > 0 && !forceRefresh
returnsFileReviews(fileReviews, force) == Len(fileReviews) > 0 /\ ~force

\* getReviews up to its first await
ApifyStart(c, force) ==
    /\ svc = "apify"
    /\ CanStart(c)
    /\ LET rec == NewCall(force)
           valid == returnsCached(force, lastFetchTime, cachedReviews, now)
           rec2 == IF valid THEN Return([rec EXCEPT !.hit = TRUE], Val(cachedReviews))
                   ELSE [rec EXCEPT !.pc = "load"]
       IN /\ call' = [call EXCEPT ![c] = rec2]
          /\ streak' = StreakAfter(rec2)
    /\ hist' = CallStarted
    /\ UNCHANGED <<svc, mailVars, now, lastFetchTime, cachedReviews, file, gmsVars>>

\* loadReviewsFromFile, then the file return and the quota gate
ApifyLoad(c) ==
    /\ svc = "apify"
    /\ call[c].pc = "load"
    /\ LET rec == [call[c] EXCEPT !.fileReviews = loadedReviews(file)]
           fromFile == returnsFileReviews(rec.fileReviews, rec.forceRefresh)
           gated == [rec EXCEPT !.gate = Some([file |-> file, at |-> now,
                                               allowed |-> canMakeApiCall(file, now)])]
           rec2 == IF fromFile THEN Return(rec, rec.fileReviews)
                   ELSE IF canMakeApiCall(file, now)
                        THEN [gated EXCEPT !.pc = "fetch", !.live = @ + 1]
                   ELSE IF Len(rec.fileReviews) > 0 THEN Return(gated, rec.fileReviews)
                   ELSE Caught(gated, cachedAfterLoad(file))
       IN /\ call' = [call EXCEPT ![c] = rec2]
          /\ streak' = StreakAfter(rec2)
          /\ cachedReviews' = IF fromFile THEN Some(rec.fileReviews)
                              ELSE cachedAfterLoad(file)
          /\ lastFetchTime' = IF fromFile THEN now ELSE lastFetchAfterLoad(file)
          /\ hist' = IF rec2.pc = "fetch" THEN FetchStarted ELSE hist
    /\ UNCHANGED <<svc, mailVars, now, file, gmsVars>>

\* fetchReviewsFromApify throws: the catch block
ApifyFetchError(c) ==
    /\ svc = "apify"
    /\ call[c].pc = "fetch"
    /\ LET rec2 == Caught([call[c] EXCEPT !.upstream = "error"], cachedReviews)
       IN /\ call' = [call EXCEPT ![c] = rec2]
          /\ streak' = StreakAfter(rec2)
    /\ UNCHANGED <<svc, mailVars, hist, now, lastFetchTime, cachedReviews, file, gmsVars>>

\* the run yields no items: fetchReviewsFromApify returns [], and getReviews
\* goes on to updateCounters and to the cache
ApifyFetchEmpty(c, wrote) ==
    /\ svc = "apify"
    /\ call[c].pc = "fetch"
    /\ LET rec == [call[c] EXCEPT !.upstream = "empty", !.freshReviews = <<>>,
                                  !.updated = Some([before |-> file, at |-> now,
                                                    wrote |-> wrote]),
                                  !.wfail = ~wrote]
           rec2 == Return(rec, <<>>)
       IN /\ call' = [call EXCEPT ![c] = rec2]
          /\ streak' = StreakAfter(rec2)
    /\ file' = IF wrote THEN updateCounters(file, now) ELSE file
    /\ hist' = IF wrote THEN [hist EXCEPT !.written = NULL] ELSE hist
    /\ cachedReviews' = Some(<<>>)
    /\ lastFetchTime' = now
    /\ UNCHANGED <<svc, mailVars, now, gmsVars>>

\* mutant: a failed write ends the call with the error
afterWrites_Aborts(rec, saved, wrote) ==
    IF saved /\ wrote THEN Return(rec, rec.freshReviews) ELSE Throw(rec)

\* saveReviewsToFile and updateCounters catch and log their write errors:
\* getReviews goes on to return freshReviews
afterWrites(rec, saved, wrote) == Return(rec, rec.freshReviews)

\* the run yields items: they are transformed and saveReviewsToFile is awaited
ApifyFetchItems(c, items) ==
    /\ svc = "apify"
    /\ call[c].pc = "fetch"
    /\ Len(items) > 0
    /\ call' = [call EXCEPT ![c] = [@ EXCEPT !.upstream = "items",
                                             !.freshReviews = transformReviews(items),
                                             !.pc = "save"]]
    /\ UNCHANGED <<svc, mailVars, hist, now, apifyVars, gmsVars, cacheMap>>

\* saveReviewsToFile writes, then getReviews calls updateCounters and sets the cache
ApifySave(c, saved, wrote) ==
    /\ svc = "apify"
    /\ call[c].pc = "save"
    /\ LET doc == IF saved THEN savedDocument(call[c].freshReviews, now) ELSE file
           rec == [call[c] EXCEPT !.updated = Some([before |-> doc, at |-> now,
                                                    wrote |-> wrote]),
                                  !.saved = Some([before |-> file, after |-> doc,
                                                  wrote |-> saved]),
                                  !.wfail = ~saved \/ ~wrote]
           rec2 == afterWrites(rec, saved, wrote)
       IN /\ call' = [call EXCEPT ![c] = rec2]
          /\ streak' = StreakAfter(rec2)
          /\ file' = IF wrote THEN updateCounters(doc, now) ELSE doc
          /\ hist' = [hist EXCEPT !.written =
                        IF saved /\ wrote THEN Some(Persisted(call[c].freshReviews,
                                                             updateCounters(doc, now)))
                        ELSE IF saved \/ wrote THEN NULL
                        ELSE @]
    /\ cachedReviews' = Some(call[c].freshReviews)
    /\ lastFetchTime' = now
    /\ UNCHANGED <<svc, mailVars, now, gmsVars>>

\* the catch block's loadReviewsFromFile, then the rethrow
ApifyCatchLoad(c) ==
    /\ svc = "apify"
    /\ call[c].pc = "catchLoad"
    /\ LET fileReviews == loadedReviews(file)
           rec2 == IF Len(fileReviews) > 0 THEN Return(call[c], fileReviews)
                   ELSE Throw(call[c])
       IN /\ call' = [call EXCEPT ![c] = rec2]
          /\ streak' = StreakAfter(rec2)
    /\ cachedReviews' = cachedAfterLoad(file)
    /\ lastFetchTime' = lastFetchAfterLoad(file)
    /\ UNCHANGED <<svc, mailVars, hist, now, file, gmsVars>>

\* a new process: the constructor's fields, the file as it was left
Restart ==
    /\ svc = "apify"
    /\ \A c \in Callers : CanStart(c)
    /\ lastFetchTime # 0 \/ ~IsNull(cachedReviews)
    /\ lastFetchTime' = 0
    /\ cachedReviews' = NULL
    /\ call' = Delivered
    /\ UNCHANGED <<svc, mailVars, hist, now, file, streak, gmsVars>>

\* time passes
Tick ==
    /\ now < StartMs + MaxTicks * TickMs
    /\ now' = now + TickMs
    /\ call' = Delivered
    /\ UNCHANGED <<svc, mailVars, hist, apifyVars, gmsVars>>

----------------------------------------------------------------------------
(* GoogleMapsService.getReviews, the scraping service: one cache entry    *)
(* under 'reviews', one pending scrapeReviews() promise in activeRequests. *)

Scraped(i, n, text) ==
    [id |-> <<"review", i>>, name |-> n, rating |-> 5, date |-> "Recently",
     review |-> text, profileImage |-> ""]

\* what scrapeReviews may resolve to
ScrapeResults ==
    { <<>>,
      <<Scraped(0, "Huda", "quick permits and a helpful team")>>,
      <<Scraped(0, "Reviewer 1", "they follow every request closely"),
        Scraped(2, "Noor", "excellent environmental consulting")>> }

getStaticReviews ==
    << [id |-> "static_1", name |-> "Moamen Khafagy", rating |-> 5,
        date |-> "a month ago", review |-> "speed, precision and execution"],
       [id |-> "static_2", name |-> "Saeed Salah 1418", rating |-> 5,
        date |-> "a month ago", review |-> "one of the most distinguished offices"] >>

\* the ids and scrapedAt of the static scraped reviews carry the call's instant
getStaticScrapedReviews(t) ==
    << [id |-> <<"scraped", t, 1>>, name |-> "Moamen Khafagy", rating |-> 5,
        review |-> "speed, precision and execution", isLive |-> TRUE,
        source |-> "google_maps_scraped", scrapedAt |-> toISOString(t)],
       [id |-> <<"scraped", t, 2>>, name |-> "Saeed Salah 1418", rating |-> 5,
        review |-> "one of the most distinguished offices", isLive |-> TRUE,
        source |-> "google_maps_scraped", scrapedAt |-> toISOString(t)] >>

\* cached && Date.now() - cached.timestamp < this.cacheTimeout
cacheEntryValid(entry, t) ==
    IF IsNull(entry) THEN FALSE ELSE t - Val(entry).timestamp < cacheTimeout

\* the catch block: the cache entry of any age, else the error goes on
GmsCaught(rec, entry) ==
    IF ~IsNull(entry) THEN Return(rec, Val(entry).data) ELSE Throw(rec)

\* mutant: a pending scrape is never waited for
requestInProgress_Ignored(active) == FALSE

\* this.activeRequests.has('reviews')
requestInProgress(active) == active

\* mutant: the active request is removed only after a fulfilled scrape
afterFinally_OnlyOnSuccess(fulfilled) == ~fulfilled

\* finally { this.activeRequests.delete('reviews') }: whether the entry is
\* still there once the awaited scrape has settled
afterFinally(fulfilled) == FALSE

\* getReviews up to its await
GmsStart(c) ==
    /\ svc = "gms"
    /\ CanStart(c)
    /\ LET rec == NewCall(FALSE)
           rec2 == IF cacheEntryValid(cache, now)
                   THEN Return([rec EXCEPT !.hit = TRUE], Val(cache).data)
                   ELSE IF requestInProgress(activeRequests)
                   THEN [rec EXCEPT !.pc = "join"]
                   ELSE [rec EXCEPT !.pc = "scrape", !.live = @ + 1]
       IN /\ call' = [call EXCEPT ![c] = rec2]
          /\ activeRequests' = IF rec2.pc = "scrape" THEN TRUE ELSE activeRequests
    /\ UNCHANGED <<svc, mailVars, hist, now, apifyVars, cache, tried, cacheMap>>

\* the call that started the scrape, once the promise is fulfilled with reviews
ownerFulfilled(rec, reviews) ==
    Return([rec EXCEPT !.upstream = IF Len(reviews) > 0 THEN "items" ELSE "empty"],
           reviews)

\* a call that awaited the promise found in activeRequests
joinerFulfilled(rec, reviews) == Return(rec, reviews)

\* scrapeReviews resolves: its starter caches the reviews and clears the
\* active request, then the calls waiting on the same promise return them
GmsScrapeFulfilled(reviews) ==
    /\ svc = "gms"
    /\ activeRequests
    /\ cache' = Some([data |-> reviews, timestamp |-> now])
    /\ activeRequests' = afterFinally(TRUE)
    /\ call' = [c \in Callers |->
                  IF call[c].pc = "scrape" THEN ownerFulfilled(call[c], reviews)
                  ELSE IF call[c].pc = "join" THEN joinerFulfilled(call[c], reviews)
                  ELSE call[c]]
    /\ UNCHANGED <<svc, mailVars, hist, now, apifyVars, tried, cacheMap>>

\* scrapeReviews rejects: the finally clears the active request and every
\* waiting call runs its catch block
GmsScrapeRejected ==
    /\ svc = "gms"
    /\ activeRequests
    /\ activeRequests' = afterFinally(FALSE)
    /\ call' = [c \in Callers |->
                  IF call[c].pc \in {"scrape", "join"}
                  THEN GmsCaught([call[c] EXCEPT !.upstream = "error"], cache)
                  ELSE call[c]]
    /\ UNCHANGED <<svc, mailVars, hist, now, apifyVars, cache, tried, cacheMap>>

\* clearCache
GmsClearCache ==
    /\ svc \in {"gms", "static"}
    /\ ~IsNull(cache)
    /\ cache' = NULL
    /\ call' = Delivered
    /\ UNCHANGED <<svc, mailVars, hist, now, apifyVars, activeRequests, tried, cacheMap>>

----------------------------------------------------------------------------
(* GoogleMapsService.getReviews, the service of the static scraped        *)
(* reviews: no await, the whole call is one step.                          *)

StaticGetReviews(c) ==
    /\ svc = "static"
    /\ CanStart(c)
    /\ LET rec == NewCall(FALSE)
           valid == cacheEntryValid(cache, now)
           reviews == getStaticScrapedReviews(now)
       IN /\ call' = [call EXCEPT ![c] =
                        IF valid THEN Return([rec EXCEPT !.hit = TRUE], Val(cache).data)
                        ELSE Return(rec, reviews)]
          /\ cache' = IF valid THEN cache
                      ELSE Some([data |-> reviews, timestamp |-> now])
    /\ UNCHANGED <<svc, mailVars, hist, now, apifyVars, activeRequests, tried, cacheMap>>

----------------------------------------------------------------------------
(* GoogleMapsService.scrapeLiveReviews: the approaches are awaited one    *)
(* after the other; a step is the outcome of the approach in progress      *)
(* together with what the loop does with it.                               *)

\* const approaches = [...]
approaches ==
    << "scrapeWithGoogleMapsAPI", "scrapeWithThirdPartyService",
       "scrapeWithRotatingUserAgents", "scrapeWithDelayedRequests",
       "scrapeWithAlternativeURLs", "scrapeWithJSONExtraction",
       "scrapeWithProxyRequest", "scrapeWithMobileUserAgent",
       "scrapeWithDirectRequest" >>

\* the source tags an approach gives the reviews it builds
Provenance(a) ==
    IF a = "scrapeWithGoogleMapsAPI" THEN {"google_maps_api"}
    ELSE IF a = "scrapeWithJSONExtraction" THEN {"json_extraction", "web_scraping"}
    ELSE {"web_scraping"}

LiveSources == UNION {Provenance(approaches[k]) : k \in 1..Len(approaches)}

\* approaches that throw, and never return [], when they find no review
ThrowsWhenEmpty == {"scrapeWithRotatingUserAgents", "scrapeWithAlternativeURLs"}

\* review texts an upstream page may carry
LiveTexts == <<"helpful team and quick permits", "excellent consulting, recommended">>

LiveReview(src, t, index, text) ==
    [id |-> <<src, t, index>>, name |-> "Reviewer", rating |-> 5, review |-> text,
     isLive |-> TRUE, source |-> src, scrapedAt |-> toISOString(t)]

\* the approach the loop is awaiting
CurrentApproach == approaches[Len(tried) + 1]

Attempt(outcome, reviews) ==
    [approach |-> CurrentApproach, outcome |-> outcome, reviews |-> reviews]

\* mutant: whatever an approach returns ends the chain
accepted_Always(reviews) == TRUE

\* reviews && reviews.length > 0
accepted(reviews) == Len(reviews) > 0

\* mutant: the failure of the last approach is the failure of the chain
approachFailed_Rethrows(rec, trail) ==
    IF Len(trail) = Len(approaches) THEN Throw(rec) ELSE rec

\* continue; and, after the last approach, return []
approachFailed(rec, trail) ==
    IF Len(trail) = Len(approaches) THEN Return(rec, <<>>) ELSE rec

approachReturned(rec, trail, reviews) ==
    IF accepted(reviews) THEN Return(rec, reviews) ELSE approachFailed(rec, trail)

\* scrapeLiveReviews up to the await of its first approach
ScrapeLiveStart(c) ==
    /\ svc = "live"
    /\ CanStart(c)
    /\ call' = [call EXCEPT ![c] = [NewCall(FALSE) EXCEPT !.pc = "approach"]]
    /\ tried' = <<>>
    /\ UNCHANGED <<svc, mailVars, hist, now, apifyVars, cache, activeRequests, cacheMap>>

\* the approach in progress throws
ApproachThrows(c) ==
    /\ svc = "live"
    /\ call[c].pc = "approach"
    /\ LET trail == Append(tried, Attempt("throw", <<>>))
       IN /\ tried' = trail
          /\ call' = [call EXCEPT ![c] = approachFailed(call[c], trail)]
    /\ UNCHANGED <<svc, mailVars, hist, now, apifyVars, cache, activeRequests, cacheMap>>

\* the approach in progress returns []
ApproachEmpty(c) ==
    /\ svc = "live"
    /\ call[c].pc = "approach"
    /\ CurrentApproach \notin ThrowsWhenEmpty
    /\ LET trail == Append(tried, Attempt("empty", <<>>))
       IN /\ tried' = trail
          /\ call' = [call EXCEPT ![c] = approachReturned(call[c], trail, <<>>)]
    /\ UNCHANGED <<svc, mailVars, hist, now, apifyVars, cache, activeRequests, cacheMap>>

\* the approach in progress returns n reviews tagged src
ApproachYields(c, n, src) ==
    /\ svc = "live"
    /\ call[c].pc = "approach"
    /\ src \in Provenance(CurrentApproach)
    /\ LET reviews == [i \in 1..n |-> LiveReview(src, now, i - 1, LiveTexts[i])]
           trail == Append(tried, Attempt("reviews", reviews))
           rec == [call[c] EXCEPT !.upstream = "items", !.live = @ + 1]
       IN /\ tried' = trail
          /\ call' = [call EXCEPT ![c] = approachReturned(rec, trail, reviews)]
    /\ UNCHANGED <<svc, mailVars, hist, now, apifyVars, cache, activeRequests, cacheMap>>

----------------------------------------------------------------------------
(* The GoogleMapsService with the web scraping and the Places API methods  *)
(* (its getReviews outside a serverless environment).  Each method keeps   *)
(* its entry of this.cache under a key of its own.                         *)

CacheKeys == {"reviews", "scraped_reviews", "api_reviews"}

\* new Map()
NoEntries == [k \in CacheKeys |-> NULL]

IsWeb == svc \in {"web", "webkey"}

\* process.env.GOOGLE_MAPS_API_KEY
apiKey == svc = "webkey"

ApiReview(i, n, text) ==
    [id |-> <<"api", i>>, name |-> n, rating |-> 4, date |-> "Recently",
     review |-> text, profileImage |-> ""]

\* data.result.reviews, mapped
ApiResults ==
    { <<>>, <<ApiReview(0, "Khalid", "clear reports, delivered on time")>> }

\* this.cache.set(key, { data, timestamp: Date.now() })
cacheSet(key, data) == [cacheMap EXCEPT ![key] = Some([data |-> data, timestamp |-> now])]

\* getReviews up to its await
WebGetReviews(c) ==
    /\ IsWeb
    /\ CanStart(c)
    /\ LET rec == NewCall(FALSE)
           cached == cacheMap["reviews"]
           rec2 == IF cacheEntryValid(cached, now)
                   THEN Return([rec EXCEPT !.hit = TRUE], Val(cached).data)
                   ELSE IF requestInProgress(activeRequests)
                   THEN [rec EXCEPT !.pc = "join"]
                   ELSE [rec EXCEPT !.pc = "scrape", !.live = @ + 1]
       IN /\ call' = [call EXCEPT ![c] = rec2]
          /\ activeRequests' = IF rec2.pc = "scrape" THEN TRUE ELSE activeRequests
    /\ UNCHANGED <<svc, mailVars, hist, now, apifyVars, cache, cacheMap, tried>>

\* the promise of scrapeReviews is fulfilled with data: the call that
\* started it and the calls waiting on it return the data
webScrapeResolved(data, upstream) ==
    [c \in Callers |->
        IF call[c].pc = "scrape"
        THEN Return([call[c] EXCEPT !.upstream = upstream], data)
        ELSE IF call[c].pc = "join" THEN Return(call[c], data)
        ELSE call[c]]

\* scrapeReviews returns what it scraped: the starter of the scrape caches
\* it under 'reviews' and clears the active request
WebScrapeFulfilled(reviews) ==
    /\ IsWeb
    /\ activeRequests
    /\ cacheMap' = cacheSet("reviews", reviews)
    /\ activeRequests' = afterFinally(TRUE)
    /\ call' = webScrapeResolved(reviews, IF Len(reviews) > 0 THEN "items" ELSE "empty")
    /\ UNCHANGED <<svc, mailVars, hist, now, apifyVars, cache, tried>>

\* scrapeReviews catches a scraping error and returns getStaticReviews():
\* getReviews caches and returns them like scraped reviews
WebScrapeFellBack ==
    /\ IsWeb
    /\ activeRequests
    /\ cacheMap' = cacheSet("reviews", getStaticReviews)
    /\ activeRequests' = afterFinally(TRUE)
    /\ call' = webScrapeResolved(getStaticReviews, "error")
    /\ UNCHANGED <<svc, mailVars, hist, now, apifyVars, cache, tried>>

\* scrapeReviews rejects (browser.close() throws in its finally): the
\* catch block of getReviews returns the static reviews
WebScrapeRejected ==
    /\ IsWeb
    /\ activeRequests
    /\ activeRequests' = afterFinally(FALSE)
    /\ call' = [c \in Callers |->
                  IF call[c].pc \in {"scrape", "join"}
                  THEN Return([call[c] EXCEPT !.upstream = "error"], getStaticReviews)
                  ELSE call[c]]
    /\ UNCHANGED <<svc, mailVars, hist, now, apifyVars, cache, cacheMap, tried>>

\* getReviewsFromWebScraping up to the await of its first approach
webScrapingEntered(rec) ==
    LET cached == cacheMap["scraped_reviews"]
    IN IF cacheEntryValid(cached, now)
       THEN Return([rec EXCEPT !.hit = TRUE], Val(cached).data)
       ELSE [rec EXCEPT !.pc = "approaches", !.live = @ + 1]

WebScraping(c) ==
    /\ IsWeb
    /\ CanStart(c)
    /\ call' = [call EXCEPT ![c] = webScrapingEntered(NewCall(FALSE))]
    /\ UNCHANGED <<svc, mailVars, hist, now, apifyVars, cache, activeRequests, cacheMap, tried>>

\* the approaches of getReviewsFromWebScraping have been tried in turn:
\* reviews is what the first successful one returned, [] if none succeeded
WebApproachesSettled(c, reviews) ==
    /\ IsWeb
    /\ call[c].pc = "approaches"
    /\ IF Len(reviews) > 0
       THEN /\ cacheMap' = cacheSet("scraped_reviews", reviews)
            /\ call' = [call EXCEPT ![c] =
                           Return([@ EXCEPT !.upstream = "items"], reviews)]
       ELSE /\ cacheMap' = cacheMap
            /\ call' = [call EXCEPT ![c] =
                           Return([@ EXCEPT !.upstream = "error"], getStaticReviews)]
    /\ UNCHANGED <<svc, mailVars, hist, now, apifyVars, cache, activeRequests, tried>>

\* getReviewsFromAPI up to its await
WebFromAPI(c, force) ==
    /\ IsWeb
    /\ CanStart(c)
    /\ LET rec == NewCall(force)
           cached == cacheMap["api_reviews"]
           rec2 == IF ~apiKey THEN webScrapingEntered(rec)
                   ELSE IF ~force /\ cacheEntryValid(cached, now)
                   THEN Return([rec EXCEPT !.hit = TRUE], Val(cached).data)
                   ELSE [rec EXCEPT !.pc = "api", !.live = @ + 1]
       IN call' = [call EXCEPT ![c] = rec2]
    /\ UNCHANGED <<svc, mailVars, hist, now, apifyVars, cache, activeRequests, cacheMap, tried>>

\* the Places API answers with a reviews array
WebApiResponded(c, reviews) ==
    /\ IsWeb
    /\ call[c].pc = "api"
    /\ cacheMap' = cacheSet("api_reviews", reviews)
    /\ call' = [call EXCEPT ![c] =
                  Return([@ EXCEPT !.upstream = IF Len(reviews) > 0 THEN "items"
                                                ELSE "empty"], reviews)]
    /\ UNCHANGED <<svc, mailVars, hist, now, apifyVars, cache, activeRequests, tried>>

\* the request fails, or the answer has no result.reviews
WebApiFailed(c) ==
    /\ IsWeb
    /\ call[c].pc = "api"
    /\ call' = [call EXCEPT ![c] =
                  Return([@ EXCEPT !.upstream = "error"], getStaticReviews)]
    /\ UNCHANGED <<svc, mailVars, hist, now, apifyVars, cache, activeRequests, cacheMap, tried>>

\* clearCache
WebClearCache ==
    /\ IsWeb
    /\ cacheMap # NoEntries
    /\ cacheMap' = NoEntries
    /\ call' = Delivered
    /\ UNCHANGED <<svc, mailVars, hist, now, apifyVars, cache, activeRequests, tried>>

----------------------------------------------------------------------------
(* The mail routes: POST /api/contact and POST /api/newsletter of         *)
(* server.js, and of part_000, where the contact route first asks an      *)
(* external service whether the address is valid and the reserve address  *)
(* is optional.                                                            *)

IsMail == svc \in {"server", "app"}

\* JavaScript truthiness of an optional string
truthy(v) == ~IsNull(v) /\ Val(v) # ""

NoEnv ==
    [EMAIL_USER |-> NULL, EMAIL_PASS |-> NULL, EMAIL_HOST |-> NULL,
     RECIPIENT_EMAIL |-> NULL, RESERVE_EMAIL |-> NULL]

\* the environments the server may be started in
Environments ==
    [EMAIL_USER : {NULL, Some("customer-service@erthfc.com")},
     EMAIL_PASS : {NULL, Some("secret")},
     EMAIL_HOST : {NULL, Some("mail.spacemail.com")},
     RECIPIENT_EMAIL : {NULL, Some("main@erthfc.com")},
     RESERVE_EMAIL : {NULL, Some("reserve@erthfc.com")}]

\* const RECIPIENT_EMAIL: part_000 falls back to a built-in address
RECIPIENT_EMAIL ==
    IF svc = "app" /\ ~truthy(env.RECIPIENT_EMAIL)
    THEN Some("fahad.admin@erthfc.com")
    ELSE env.RECIPIENT_EMAIL

RESERVE_EMAIL == env.RESERVE_EMAIL

\* the check "if email configuration is available", negated
configurationMissing ==
    \/ ~truthy(env.EMAIL_USER) \/ ~truthy(env.EMAIL_PASS)
    \/ ~truthy(env.EMAIL_HOST) \/ ~truthy(RECIPIENT_EMAIL)
    \/ (svc = "server" /\ ~truthy(RESERVE_EMAIL))

\* mailOptions.to, address by address
toEmails ==
    IF svc = "server" \/ truthy(RESERVE_EMAIL)
    THEN <<Val(RECIPIENT_EMAIL), Val(RESERVE_EMAIL)>>
    ELSE <<Val(RECIPIENT_EMAIL)>>

NoBody == [name |-> NULL, email |-> NULL, message |-> NULL]

FieldValues == {NULL, Some(""), Some("text")}

\* req.body of a contact request
ContactBodies == [name : FieldValues, email : FieldValues, message : FieldValues]

\* req.body of a newsletter request
NewsletterBodies == [name : {NULL}, email : FieldValues, message : {NULL}]

\* no request has been received yet
IdleRequest ==
    [pc |-> "idle", route |-> "none", body |-> NoBody, seen |-> "none",
     responses |-> <<>>, outbox |-> <<>>, sendMail |-> "none"]

\* res.status(status).json({ error }) (no error text on 200)
respond(r, status, error) ==
    [r EXCEPT !.pc = "done",
              !.responses = Append(@, [status |-> status, error |-> error])]

\* transporter.sendMail(mailOptions) is called and awaited
send(r) ==
    [r EXCEPT !.pc = "sending", !.outbox = Append(@, [to |-> toEmails])]

\* the handlers from the configuration check on
configurationChecked(r) ==
    IF configurationMissing
    THEN respond(r, 500, "Email service not configured. Please contact administrator.")
    ELSE send(r)

\* mutant: the required fields are checked after the configuration
fieldsChecked_AfterConfiguration(r) ==
    IF configurationMissing
    THEN configurationChecked(r)
    ELSE IF ~truthy(r.body.name) \/ ~truthy(r.body.email) \/ ~truthy(r.body.message)
    THEN respond(r, 400, "Name, email, and message are required")
    ELSE IF svc = "app" THEN [r EXCEPT !.pc = "validating"]
    ELSE configurationChecked(r)

\* POST /api/contact up to its first await
fieldsChecked(r) ==
    IF ~truthy(r.body.name) \/ ~truthy(r.body.email) \/ ~truthy(r.body.message)
    THEN respond(r, 400, "Name, email, and message are required")
    ELSE IF svc = "app" THEN [r EXCEPT !.pc = "validating"]
    ELSE configurationChecked(r)

\* a new request may be received when none is being handled
Receivable == http.pc \in {"idle", "done"}

ContactPost(body) ==
    /\ IsMail
    /\ Receivable
    /\ http' = fieldsChecked([IdleRequest EXCEPT !.route = "contact", !.body = body])
    /\ UNCHANGED <<svc, env, now, apifyVars, gmsVars, call, hist>>

\* response.data of the validation service: an object with a valid flag,
\* or no object at all
ValidationAnswers == {Some([valid |-> TRUE]), Some([valid |-> FALSE]), NULL}

\* mutant: a failed validation call counts as an invalid address
validateEmail_FailsClosed(answered, data) ==
    IF answered THEN data ELSE Some([valid |-> FALSE])

\* emailService.validateEmail: the response data, or { valid: true } when
\* the call fails
validateEmail(answered, data) ==
    IF answered THEN data ELSE Some([valid |-> TRUE])

\* the contact handler after the validation call: reading .valid of no
\* object throws into the empty inner catch
validated(r, emailValidation) ==
    IF ~IsNull(emailValidation) /\ ~Val(emailValidation).valid
    THEN respond(r, 400, "Invalid email address")
    ELSE configurationChecked(r)

\* the validation service answers
ValidationAnswered(data) ==
    /\ svc = "app"
    /\ http.pc = "validating"
    /\ http' = validated([http EXCEPT !.seen = IF IsNull(data) THEN "nothing"
                                              ELSE IF Val(data).valid THEN "valid"
                                              ELSE "invalid"],
                         validateEmail(TRUE, data))
    /\ UNCHANGED <<svc, env, now, apifyVars, gmsVars, call, hist>>

\* the validation call fails: an error status, no connection, the timeout
ValidationFailed ==
    /\ svc = "app"
    /\ http.pc = "validating"
    /\ http' = validated([http EXCEPT !.seen = "failed"], validateEmail(FALSE, NULL))
    /\ UNCHANGED <<svc, env, now, apifyVars, gmsVars, call, hist>>

\* POST /api/newsletter up to its await
NewsletterPost(body) ==
    /\ IsMail
    /\ Receivable
    /\ LET r == [IdleRequest EXCEPT !.route = "newsletter", !.body = body]
       IN http' = IF ~truthy(body.email)
                  THEN respond(r, 400, "Email is required")
                  ELSE configurationChecked(r)
    /\ UNCHANGED <<svc, env, now, apifyVars, gmsVars, call, hist>>

\* sendMail rejects: the catch block of the handler answers
sendMailRejected(r) ==
    respond([r EXCEPT !.sendMail = "failed"], 500,
            IF r.route = "contact" THEN "Failed to send email"
            ELSE "Failed to subscribe to newsletter")

\* sendMail resolves
SendMailCompleted ==
    /\ IsMail
    /\ http.pc = "sending"
    /\ http' = respond([http EXCEPT !.sendMail = "sent"], 200, "")
    /\ UNCHANGED <<svc, env, now, apifyVars, gmsVars, call, hist>>

SendMailFailed ==
    /\ IsMail
    /\ http.pc = "sending"
    /\ http' = sendMailRejected(http)
    /\ UNCHANGED <<svc, env, now, apifyVars, gmsVars, call, hist>>

----------------------------------------------------------------------------
(* The initial states: a new process, and the document an earlier process *)
(* may have left.                                                          *)

\* the reviews an earlier process saved
StoredReviews == transformReviews(<<Item("Omar", 5, "reliable and professional")>>)

\* saved half a day and one day before the start
StoredTimestamps ==
    { toISOString(StartMs - k * (CACHE_DURATION \div 2)) : k \in 1..2 }

\* both counters are written by one updateCounters call: for the same
\* instant, the monthly count at least the daily one
StoredCounters ==
    { <<[date |-> getCurrentDateString(t), count |-> dc],
        [month |-> getCurrentMonthString(t), count |-> mc]>> :
        <<t, dc, mc>> \in
            { x \in {StartMs, StartMs - MsPerDay}
                    \X {DAILY_LIMIT - 1, DAILY_LIMIT}
                    \X {DAILY_LIMIT, MONTHLY_LIMIT - 1, MONTHLY_LIMIT} :
                x[2] <= x[3] } }

InitFiles ==
    {NoFile, CorruptFile}
    \cup { [exists |-> TRUE, valid |-> TRUE, timestamp |-> Some(ts), reviews |-> Some(StoredReviews),
            dailyCount |-> NULL, monthlyCount |-> NULL] : ts \in StoredTimestamps }
    \cup { [exists |-> TRUE, valid |-> TRUE, timestamp |-> NULL, reviews |-> NULL,
            dailyCount |-> Some(k[1]), monthlyCount |-> Some(k[2])] : k \in StoredCounters }
    \cup { [exists |-> TRUE, valid |-> TRUE, timestamp |-> Some(ts), reviews |-> Some(StoredReviews),
            dailyCount |-> Some(k[1]), monthlyCount |-> Some(k[2])] :
            ts \in StoredTimestamps, k \in StoredCounters }

Init ==
    /\ svc \in {"apify", "gms", "static", "live", "web", "webkey", "server", "app"}
    /\ env \in (IF IsMail THEN Environments ELSE {NoEnv})
    /\ http = IdleRequest
    /\ now = StartMs
    /\ lastFetchTime = 0
    /\ cachedReviews = NULL
    /\ file \in (IF svc = "apify" THEN InitFiles ELSE {NoFile})
    /\ cache = NULL
    /\ activeRequests = FALSE
    /\ tried = <<>>
    /\ cacheMap = NoEntries
    /\ call = [c \in Callers |-> IdleCall]
    /\ streak = NoStreak
    /\ hist = NoHist(FALSE)

\* the caller of the sequential specification
FirstCaller == CHOOSE c \in Callers : \A d \in Callers : c <= d

\* calls are made one at a time: a call is started once the one before is done
Next ==
    \/ \E force \in BOOLEAN : ApifyStart(FirstCaller, force)
    \/ ApifyLoad(FirstCaller)
    \/ ApifyFetchError(FirstCaller)
    \/ \E wrote \in BOOLEAN : ApifyFetchEmpty(FirstCaller, wrote)
    \/ \E items \in Payloads : ApifyFetchItems(FirstCaller, items)
    \/ \E saved, wrote \in BOOLEAN : ApifySave(FirstCaller, saved, wrote)
    \/ ApifyCatchLoad(FirstCaller)
    \/ Restart
    \/ GmsStart(FirstCaller)
    \/ \E reviews \in ScrapeResults : GmsScrapeFulfilled(reviews)
    \/ GmsScrapeRejected
    \/ GmsClearCache
    \/ StaticGetReviews(FirstCaller)
    \/ ScrapeLiveStart(FirstCaller)
    \/ ApproachThrows(FirstCaller)
    \/ ApproachEmpty(FirstCaller)
    \/ \E n \in 1..Len(LiveTexts), src \in LiveSources :
           ApproachYields(FirstCaller, n, src)
    \/ WebGetReviews(FirstCaller)
    \/ \E reviews \in ScrapeResults : WebScrapeFulfilled(reviews)
    \/ WebScrapeFellBack
    \/ WebScrapeRejected
    \/ WebScraping(FirstCaller)
    \/ \E reviews \in ScrapeResults : WebApproachesSettled(FirstCaller, reviews)
    \/ \E force \in BOOLEAN : WebFromAPI(FirstCaller, force)
    \/ \E reviews \in ApiResults : WebApiResponded(FirstCaller, reviews)
    \/ WebApiFailed(FirstCaller)
    \/ WebClearCache
    \/ \E body \in ContactBodies : ContactPost(body)
    \/ \E data \in ValidationAnswers : ValidationAnswered(data)
    \/ ValidationFailed
    \/ \E body \in NewsletterBodies : NewsletterPost(body)
    \/ SendMailCompleted
    \/ SendMailFailed
    \/ Tick

Spec == Init /\ [][Next]_vars

----------------------------------------------------------------------------
(* Overlapping calls of ApifyService.getReviews: every caller may start a *)
(* call while the others stand at an await.                                *)

\* the documents the overlapping calls start from
ConcFiles ==
    { NoFile,
      [exists |-> TRUE, valid |-> TRUE, timestamp |-> Some(toISOString(StartMs - CACHE_DURATION)),
       reviews |-> Some(StoredReviews),
       dailyCount |-> Some([date |-> getCurrentDateString(StartMs),
                            count |-> DAILY_LIMIT - 1]),
       monthlyCount |-> Some([month |-> getCurrentMonthString(StartMs),
                              count |-> DAILY_LIMIT - 1])] }

InitConc ==
    /\ svc = "apify"
    /\ now = StartMs
    /\ lastFetchTime = 0
    /\ cachedReviews = NULL
    /\ file \in ConcFiles
    /\ cache = NULL
    /\ activeRequests = FALSE
    /\ tried = <<>>
    /\ cacheMap = NoEntries
    /\ env = NoEnv
    /\ http = IdleRequest
    /\ call = [c \in Callers |-> IdleCall]
    /\ streak = NoStreak
    /\ hist = NoHist(TRUE)

\* a caller starts one of the MaxCalls calls
ConcStart(c, force) ==
    /\ hist.calls < MaxCalls
    /\ ApifyStart(c, force)

\* MaxCalls calls, all within one tick of the clock
NextConc ==
    \/ \E c \in Callers, force \in BOOLEAN : ConcStart(c, force)
    \/ \E c \in Callers : ApifyLoad(c)
    \/ \E c \in Callers : ApifyFetchError(c)
    \/ \E c \in Callers, wrote \in BOOLEAN : ApifyFetchEmpty(c, wrote)
    \/ \E c \in Callers, items \in Payloads : ApifyFetchItems(c, items)
    \/ \E c \in Callers, saved, wrote \in BOOLEAN : ApifySave(c, saved, wrote)
    \/ \E c \in Callers : ApifyCatchLoad(c)

SpecConc == InitConc /\ [][NextConc]_vars

----------------------------------------------------------------------------
(* One process from a missing document, its calls made one at a time, the *)
(* live fetches of each day counted.                                       *)

InitBudget ==
    /\ svc = "apify"
    /\ now = StartMs
    /\ lastFetchTime = 0
    /\ cachedReviews = NULL
    /\ file = NoFile
    /\ cache = NULL
    /\ activeRequests = FALSE
    /\ tried = <<>>
    /\ cacheMap = NoEntries
    /\ env = NoEnv
    /\ http = IdleRequest
    /\ call = [c \in Callers |-> IdleCall]
    /\ streak = NoStreak
    /\ hist = NoHist(TRUE)

NextBudget ==
    \/ \E force \in BOOLEAN : ApifyStart(FirstCaller, force)
    \/ ApifyLoad(FirstCaller)
    \/ ApifyFetchError(FirstCaller)
    \/ \E wrote \in BOOLEAN : ApifyFetchEmpty(FirstCaller, wrote)
    \/ \E items \in Payloads : ApifyFetchItems(FirstCaller, items)
    \/ \E saved, wrote \in BOOLEAN : ApifySave(FirstCaller, saved, wrote)
    \/ ApifyCatchLoad(FirstCaller)
    \/ Tick

SpecBudget == InitBudget /\ [][NextBudget]_vars

----------------------------------------------------------------------------
(* Progress of a call.  What the process does on its own is done in time:  *)
(* the file reads and writes of ApifyService complete, and every approach  *)
(* of scrapeLiveReviews settles, its request carrying a timeout (15 or 20  *)
(* seconds).  The Apify actor run is awaited without one, so nothing says  *)
(* that it ever settles.                                                   *)

InitFair ==
    /\ svc \in {"apify", "live"}
    /\ now = StartMs
    /\ lastFetchTime = 0
    /\ cachedReviews = NULL
    /\ file \in (IF svc = "apify" THEN ConcFiles ELSE {NoFile})
    /\ cache = NULL
    /\ activeRequests = FALSE
    /\ tried = <<>>
    /\ cacheMap = NoEntries
    /\ env = NoEnv
    /\ http = IdleRequest
    /\ call = [c \in Callers |-> IdleCall]
    /\ streak = NoStreak
    /\ hist = NoHist(FALSE)

\* the two writes of a successful fetch, whatever their outcome
ApifySaved(c) == \E saved, wrote \in BOOLEAN : ApifySave(c, saved, wrote)

\* the approach in progress settles: a response, an error or its timeout
ApproachSettles(c) ==
    \/ ApproachThrows(c)
    \/ ApproachEmpty(c)
    \/ \E n \in 1..Len(LiveTexts), src \in LiveSources : ApproachYields(c, n, src)

NextFair ==
    \/ \E force \in BOOLEAN : ApifyStart(FirstCaller, force)
    \/ ApifyLoad(FirstCaller)
    \/ ApifyFetchError(FirstCaller)
    \/ \E wrote \in BOOLEAN : ApifyFetchEmpty(FirstCaller, wrote)
    \/ \E items \in Payloads : ApifyFetchItems(FirstCaller, items)
    \/ ApifySaved(FirstCaller)
    \/ ApifyCatchLoad(FirstCaller)
    \/ ScrapeLiveStart(FirstCaller)
    \/ ApproachSettles(FirstCaller)

SpecFair ==
    /\ InitFair
    /\ [][NextFair]_vars
    /\ WF_vars(ApifyLoad(FirstCaller))
    /\ WF_vars(ApifySaved(FirstCaller))
    /\ WF_vars(ApifyCatchLoad(FirstCaller))
    /\ WF_vars(ApproachSettles(FirstCaller))

----------------------------------------------------------------------------
(* Overlapping getReviews() calls on the scraping services: every caller  *)
(* may enter while the scrape another one started is still pending.        *)

InitFlight ==
    /\ svc \in {"gms", "web"}
    /\ now = StartMs
    /\ lastFetchTime = 0
    /\ cachedReviews = NULL
    /\ file = NoFile
    /\ cache = NULL
    /\ activeRequests = FALSE
    /\ tried = <<>>
    /\ cacheMap = NoEntries
    /\ env = NoEnv
    /\ http = IdleRequest
    /\ call = [c \in Callers |-> IdleCall]
    /\ streak = NoStreak
    /\ hist = NoHist(FALSE)

NextFlight ==
    \/ Tick
    \/ \E c \in Callers : GmsStart(c)
    \/ \E reviews \in ScrapeResults : GmsScrapeFulfilled(reviews)
    \/ GmsScrapeRejected
    \/ GmsClearCache
    \/ \E c \in Callers : WebGetReviews(c)
    \/ \E reviews \in ScrapeResults : WebScrapeFulfilled(reviews)
    \/ WebScrapeFellBack
    \/ WebScrapeRejected
    \/ WebClearCache

SpecFlight == InitFlight /\ [][NextFlight]_vars

----------------------------------------------------------------------------
(* Properties.                                                             *)

Done(c) == call[c].pc = "done"

\* the call started with reviews neither in memory nor in the document
NoDataAtStart(c) ==
    /\ IsNull(call[c].pre.cachedReviews)
    /\ IsNull(call[c].pre.cache)
    /\ loadedReviews(call[c].pre.file) = <<>>

\* the quota gate refused the live fetch, or the live fetch failed
LiveUnavailable(c) ==
    \/ ~IsNull(call[c].gate) /\ ~Val(call[c].gate).allowed
    \/ call[c].upstream = "error"

\* C1: every getReviews call completes by returning a sequence of reviews,
\* never by raising an error to its caller.
C1_GetReviewsTotal == \A c \in Callers : Done(c) => call[c].result.kind = "ret"

\* C2: a call that finds no reviews in memory or in the document, and whose
\* live fetch is refused by the quota or fails, returns the static dataset.
C2_LastResortStatic ==
    \A c \in Callers :
        Done(c) /\ NoDataAtStart(c) /\ LiveUnavailable(c)
            => call[c].result = [kind |-> "ret", data |-> getStaticReviews]

\* the cache entry a call found when it started, as <<data, age>>
EntryAtStart(c) ==
    LET p == call[c].pre
    IN IF svc = "apify"
       THEN IF p.lastFetchTime # 0 /\ ~IsNull(p.cachedReviews)
            THEN Some([data |-> Val(p.cachedReviews), age |-> p.now - p.lastFetchTime])
            ELSE NULL
       ELSE IF ~IsNull(p.cache)
            THEN Some([data |-> Val(p.cache).data, age |-> p.now - Val(p.cache).timestamp])
            ELSE NULL

Timeout == IF svc = "apify" THEN CACHE_DURATION ELSE cacheTimeout

\* C3: a call without forceRefresh that finds a cache entry younger than the
\* timeout returns exactly the cached reviews, starts no live fetch, makes no
\* quota check and leaves the document as it was; an entry whose age is the
\* timeout or more is not served as a valid one.
C3_CacheHit ==
    \A c \in Callers :
        Done(c) /\ ~call[c].forceRefresh /\ ~IsNull(EntryAtStart(c)) =>
            LET e == Val(EntryAtStart(c))
            IN IF e.age < Timeout
               THEN /\ call[c].hit
                    /\ call[c].result = [kind |-> "ret", data |-> e.data]
                    /\ call[c].live = 0
                    /\ IsNull(call[c].gate)
                    /\ file = call[c].pre.file
               ELSE ~call[c].hit

\* a call served a non-empty valid cache entry
C3_Witness ==
    \E c \in Callers :
        /\ Done(c) /\ call[c].hit
        /\ svc = "apify"
        /\ call[c].result.data # <<>>
        /\ call[c].pre.now - call[c].pre.lastFetchTime < CACHE_DURATION

\* a call found an entry exactly as old as the timeout and did not serve it as valid
C3_BoundaryReached ==
    \E c \in Callers :
        /\ Done(c) /\ ~call[c].forceRefresh /\ ~IsNull(EntryAtStart(c))
        /\ Val(EntryAtStart(c)).age = Timeout
        /\ ~call[c].hit

\* the call is ApifyService.getReviews(force), completed
ApifyDone(c, force) == svc = "apify" /\ Done(c) /\ call[c].forceRefresh = force

\* the cache entry was valid when the call started
ValidAtStart(c) ==
    /\ ~IsNull(EntryAtStart(c))
    /\ Val(EntryAtStart(c)).age < Timeout

\* a persisted counter stood at its limit for the period of instant t
QuotaReached(f, t) ==
    \/ dailyCountAt(f, t) >= DAILY_LIMIT
    \/ monthlyCountAt(f, t) >= MONTHLY_LIMIT

\* C4: getReviews(false) called with no valid cache entry and both counters
\* below their limits starts a live fetch before it returns, whatever the
\* document holds.
C4_ExpiredCacheFetches ==
    \A c \in Callers :
        /\ ApifyDone(c, FALSE)
        /\ ~ValidAtStart(c)
        /\ ~QuotaReached(call[c].pre.file, call[c].pre.now)
        => call[c].live >= 1

\* C5: getReviews(true) called with a valid cache entry and both counters
\* below their limits starts the live fetch: neither the cache nor the
\* reviews in the document end the call before it.
C5_ForceRefreshFetches ==
    \A c \in Callers :
        /\ ApifyDone(c, TRUE)
        /\ ValidAtStart(c)
        /\ ~QuotaReached(call[c].pre.file, call[c].pre.now)
        => call[c].live >= 1

\* a forced refresh went live although the cache was valid and the document held reviews
C5_Witness ==
    \E c \in Callers :
        /\ ApifyDone(c, TRUE)
        /\ ValidAtStart(c)
        /\ loadedReviews(call[c].pre.file) # <<>>
        /\ call[c].live = 1
        /\ call[c].upstream = "items"

\* the call started and completed on the same day
WithinOneDay(c) ==
    getCurrentDateString(call[c].pre.now) = getCurrentDateString(now)

\* C6: getReviews(false) called while a persisted counter stands at its
\* limit for the current period starts no live fetch and returns cached,
\* persisted or static reviews.
C6_QuotaGate ==
    \A c \in Callers :
        /\ ApifyDone(c, FALSE)
        /\ WithinOneDay(c)
        /\ QuotaReached(call[c].pre.file, call[c].pre.now)
        => /\ call[c].live = 0
           /\ call[c].result.kind = "ret"

\* the part of C6 the code keeps: no live fetch behind a closed gate
NoFetchBehindClosedGate ==
    \A c \in Callers :
        /\ svc = "apify" /\ WithinOneDay(c)
        /\ QuotaReached(call[c].pre.file, call[c].pre.now)
        /\ call[c].pc # "idle"
        => call[c].live = 0

\* C7: canMakeApiCall answers false exactly when the daily counter is of
\* today with count >= DAILY_LIMIT or the monthly counter is of this month
\* with count >= MONTHLY_LIMIT; a counter of an earlier period, a missing
\* counter and a missing file all answer true.
C7_CanMakeApiCall ==
    \A c \in Callers :
        ~IsNull(call[c].gate) =>
            LET g == Val(call[c].gate)
                daily == g.file.dailyCount
                monthly == g.file.monthlyCount
                today == getCurrentDateString(g.at)
                thisMonth == getCurrentMonthString(g.at)
            IN g.allowed <=>
                 ~ \/ /\ g.file.exists /\ ~IsNull(daily)
                      /\ Val(daily).date = today /\ Val(daily).count >= DAILY_LIMIT
                   \/ /\ g.file.exists /\ ~IsNull(monthly)
                      /\ Val(monthly).month = thisMonth
                      /\ Val(monthly).count >= MONTHLY_LIMIT

\* the gate let a call through although a counter of an earlier day stood at its limit
C7_Witness ==
    \E c \in Callers :
        /\ ~IsNull(call[c].gate)
        /\ Val(call[c].gate).allowed
        /\ ~IsNull(Val(call[c].gate).file.dailyCount)
        /\ Val(Val(call[c].gate).file.dailyCount).count >= DAILY_LIMIT
        /\ Val(Val(call[c].gate).file.dailyCount).date # getCurrentDateString(Val(call[c].gate).at)

\* the gate refused a call on the monthly counter alone
C7_MonthlyRefusalReached ==
    \E c \in Callers :
        /\ ~IsNull(call[c].gate)
        /\ ~Val(call[c].gate).allowed
        /\ dailyCountAt(Val(call[c].gate).file, Val(call[c].gate).at) < DAILY_LIMIT

\* the call ran updateCounters and its write succeeded
CountersWritten(c) ==
    /\ svc = "apify" /\ Done(c)
    /\ ~IsNull(call[c].updated)
    /\ Val(call[c].updated).wrote

\* C8: updateCounters moves each counter on its own: a counter of the
\* current period is incremented, any other (earlier period, or absent)
\* becomes {current key, 1}.
C8_UpdateCounters ==
    \A c \in Callers :
        CountersWritten(c) =>
            LET u == Val(call[c].updated)
                today == getCurrentDateString(u.at)
                thisMonth == getCurrentMonthString(u.at)
                d0 == u.before.dailyCount
                m0 == u.before.monthlyCount
            IN /\ file.dailyCount =
                    IF ~IsNull(d0) /\ Val(d0).date = today
                    THEN Some([date |-> today, count |-> Val(d0).count + 1])
                    ELSE Some([date |-> today, count |-> 1])
               /\ file.monthlyCount =
                    IF ~IsNull(m0) /\ Val(m0).month = thisMonth
                    THEN Some([month |-> thisMonth, count |-> Val(m0).count + 1])
                    ELSE Some([month |-> thisMonth, count |-> 1])

\* the first recorded fetch of a new day inside the same month: the daily
\* count restarts at 1 while the monthly count goes up by one
C8_Witness ==
    \E c \in Callers :
        /\ CountersWritten(c)
        /\ ~IsNull(Val(call[c].updated).before.dailyCount)
        /\ ~IsNull(Val(call[c].updated).before.monthlyCount)
        /\ Val(Val(call[c].updated).before.dailyCount).date # getCurrentDateString(now)
        /\ Val(Val(call[c].updated).before.monthlyCount).month = getCurrentMonthString(now)
        /\ Val(file.dailyCount).count = 1
        /\ Val(file.monthlyCount).count
             = Val(Val(call[c].updated).before.monthlyCount).count + 1

\* C9: after k sequential getReviews(true) calls of one day, each with a
\* live fetch that returned reviews, the persisted daily and monthly counts
\* are each exactly k higher than before the first of them.
C9_OneCountPerFetch ==
    streak.n > 0 /\ streak.day = getCurrentDateString(now) =>
        /\ dailyCountAt(file, now) = streak.daily0 + streak.n
        /\ monthlyCountAt(file, now) = streak.monthly0 + streak.n

\* C10: the persisted counters are modified only inside a call whose live
\* fetch returned at least one review: a call whose live fetch raised or
\* returned nothing, or that never fetched, leaves both as they were.
C10_CountersOnlyOnSuccess ==
    \A c \in Callers :
        svc = "apify" /\ Done(c) /\ call[c].upstream # "items" =>
            /\ file.dailyCount = call[c].pre.file.dailyCount
            /\ file.monthlyCount = call[c].pre.file.monthlyCount

\* the part of C10 the code keeps: a failed fetch and a call that never
\* fetched leave the counters alone
CountersKeptWithoutFetchResult ==
    \A c \in Callers :
        svc = "apify" /\ Done(c) /\ call[c].upstream \in {"none", "error"} =>
            /\ file.dailyCount = call[c].pre.file.dailyCount
            /\ file.monthlyCount = call[c].pre.file.monthlyCount

\* the call is in progress: started and not yet completed
InProgress(c) == call[c].pc \notin {"idle", "done"}

\* C11: N >= 2 overlapping getReviews(true) calls, started while no live
\* fetch was in flight, start one live Apify fetch between them, not one each.
C11_Coalescing ==
    \A c, d \in Callers :
        /\ c # d
        /\ svc = "apify"
        /\ InProgress(c) /\ InProgress(d)
        /\ call[c].forceRefresh /\ call[d].forceRefresh
        /\ ~call[c].pre.busy /\ ~call[d].pre.busy
        => call[c].live + call[d].live <= 1

\* C12: within one UTC day no more than DAILY_LIMIT live Apify fetches are
\* started, whatever the calls and their results.
C12_DailyBudget == hist.counting => hist.n <= DAILY_LIMIT

\* C12, amended: a live fetch starts only while both persisted counters are
\* below their limits for the current day and month; fetches that fail are
\* not counted, so the fetches started in a day are not bounded by DAILY_LIMIT.
C12_FetchOnlyBelowLimits ==
    \A c \in Callers :
        svc = "apify" /\ call[c].live >= 1 =>
            /\ ~IsNull(call[c].gate)
            /\ dailyCountAt(Val(call[c].gate).file, Val(call[c].gate).at) < DAILY_LIMIT
            /\ monthlyCountAt(Val(call[c].gate).file, Val(call[c].gate).at) < MONTHLY_LIMIT

\* a live fetch was started with the daily count one below its limit, the
\* tenth counted fetch of the day
C12_Witness ==
    \E c \in Callers :
        /\ svc = "apify" /\ call[c].live >= 1
        /\ ~IsNull(call[c].gate)
        /\ dailyCountAt(Val(call[c].gate).file, Val(call[c].gate).at) = DAILY_LIMIT - 1
        /\ hist.n = DAILY_LIMIT

\* C13: a write of the document by saveReviewsToFile leaves its dailyCount
\* and monthlyCount as they were before the write.
C13_SaveKeepsCounters ==
    \A c \in Callers :
        ~IsNull(call[c].saved) /\ Val(call[c].saved).wrote =>
            /\ Val(call[c].saved).after.dailyCount = Val(call[c].saved).before.dailyCount
            /\ Val(call[c].saved).after.monthlyCount = Val(call[c].saved).before.monthlyCount

\* the reviews an ApifyService call could fall back on when it started: the
\* in-memory entry and the reviews of the document, where not empty
CacheAtStart(c) ==
    IF IsNull(call[c].pre.cachedReviews) THEN <<>> ELSE Val(call[c].pre.cachedReviews)

EarlierReviews(c) ==
    {r \in {CacheAtStart(c), loadedReviews(call[c].pre.file)} : Len(r) > 0}

\* C14: a live fetch that completes with zero reviews while earlier cached or
\* persisted reviews exist returns those earlier reviews, and the in-memory
\* entry still holds earlier reviews afterwards.
C14_EmptyResultDegrades ==
    \A c \in Callers :
        /\ svc = "apify" /\ Done(c)
        /\ call[c].upstream = "empty"
        /\ EarlierReviews(c) # {}
        => /\ call[c].result.kind = "ret"
           /\ call[c].result.data \in EarlierReviews(c)
           /\ ~IsNull(cachedReviews)
           /\ Val(cachedReviews) \in EarlierReviews(c)

\* the live fetch raised an error, or the quota gate refused the call
FetchFailedOrRefused(c) ==
    \/ call[c].upstream = "error"
    \/ /\ ~IsNull(call[c].gate)
       /\ QuotaReached(Val(call[c].gate).file, Val(call[c].gate).at)

\* C15: when the live fetch raises an error or a quota counter is at its
\* limit, and reviews exist in the in-memory cache or in the persisted file,
\* getReviews returns those reviews, whatever their age, instead of failing.
C15_DegradeOnFailure ==
    \A c \in Callers :
        /\ (svc = "apify" /\ Done(c) /\ FetchFailedOrRefused(c) /\ EarlierReviews(c) # {}
            => /\ call[c].result.kind = "ret"
               /\ call[c].result.data \in EarlierReviews(c))
        /\ (svc = "gms" /\ Done(c) /\ call[c].upstream = "error"
                /\ ~IsNull(call[c].pre.cache) /\ Len(Val(call[c].pre.cache).data) > 0
            => call[c].result = [kind |-> "ret", data |-> Val(call[c].pre.cache).data])

\* the degradation of C15 does hold for every call that did not start from an
\* empty in-memory entry, the entry an empty live result leaves behind
DegradesWithoutEmptyEntry ==
    \A c \in Callers :
        /\ svc = "apify" /\ Done(c) /\ FetchFailedOrRefused(c) /\ EarlierReviews(c) # {}
        /\ call[c].pre.cachedReviews # Some(<<>>)
        => /\ call[c].result.kind = "ret"
           /\ call[c].result.data \in EarlierReviews(c)

\* C18: no review with an empty body is returned to a caller: every review
\* of every returned sequence has a non-empty review text.
C18_NoEmptyBody ==
    \A c \in Callers :
        Done(c) /\ call[c].result.kind = "ret" =>
            \A i \in 1..Len(call[c].result.data) : call[c].result.data[i].review # ""

\* a call that ended with the reviews of the document: no cache hit, no gate
FileReturn(c) ==
    /\ ApifyDone(c, FALSE)
    /\ ~call[c].hit /\ IsNull(call[c].gate)
    /\ call[c].result.kind = "ret"

\* C20: when reviews are loaded from the persisted file, the timestamp of
\* the in-memory entry is the persisted timestamp, never the current time.
C20_RestartKeepsWindow ==
    \A c \in Callers :
        FileReturn(c) /\ ~IsNull(file.timestamp) =>
            lastFetchTime = getTime(Val(file.timestamp))

\* the first call of a new instance, made while the document is still the
\* one a successful live fetch left: reviews saved and counters written
FreshInstanceReads(c) ==
    /\ ApifyDone(c, FALSE)
    /\ call[c].pre.lastFetchTime = 0 /\ IsNull(call[c].pre.cachedReviews)
    /\ ~IsNull(call[c].pre.written)

\* C19: after a call that performed a successful live fetch, a fresh
\* instance reading the same file obtains from getReviews(false) the review
\* sequence the writing instance held, and reads the counters it wrote.
C19_RoundTrip ==
    \A c \in Callers :
        FreshInstanceReads(c) =>
            /\ call[c].result = [kind |-> "ret", data |-> Val(call[c].pre.written).reviews]
            /\ call[c].live = 0
            /\ file.dailyCount = Val(call[c].pre.written).dailyCount
            /\ file.monthlyCount = Val(call[c].pre.written).monthlyCount

\* a fresh instance has returned the two reviews fetched before the restart,
\* with both counters in the document
C19_Witness ==
    \E c \in Callers :
        /\ FreshInstanceReads(c)
        /\ call[c].result.kind = "ret"
        /\ Len(call[c].result.data) = 2
        /\ call[c].result.data = Val(call[c].pre.written).reviews
        /\ ~IsNull(file.dailyCount) /\ ~IsNull(file.monthlyCount)

\* the k-th approach invoked threw or returned an empty list
Failed(k) == tried[k].outcome \in {"throw", "empty"}

ChainRunning(c) == svc = "live" /\ call[c].pc \in {"approach", "done"}

C17_ExhaustionReturnsEmpty ==
    \A c \in Callers :
        /\ ChainRunning(c)
        /\ Len(tried) = Len(approaches)
        /\ \A k \in 1..Len(tried) : Failed(k)
        => /\ Done(c)
           /\ call[c].result = [kind |-> "ret", data |-> <<>>]

\* all nine approaches failed, some by throwing and some by returning [],
\* the last one by throwing, and the call returned []
C17_Witness ==
    \E c \in Callers :
        /\ svc = "live" /\ Done(c)
        /\ Len(tried) = Len(approaches)
        /\ \A k \in 1..Len(tried) : Failed(k)
        /\ \E k \in 1..Len(tried) : tried[k].outcome = "empty"
        /\ tried[Len(tried)].outcome = "throw"
        /\ call[c].result = [kind |-> "ret", data |-> <<>>]

\* the document was there but could not be parsed
Corrupt(f) == f.exists /\ ~f.valid

FirstCount(u) ==
    /\ file.dailyCount = Some([date |-> getCurrentDateString(u.at), count |-> 1])
    /\ file.monthlyCount = Some([month |-> getCurrentMonthString(u.at), count |-> 1])

\* C21: a corrupt or unreadable persisted file behaves like an absent one:
\* canMakeApiCall returns true, loadReviewsFromFile returns the empty
\* sequence, updateCounters starts both counters at 1 for the current day
\* and month, and none of the three makes the call fail.
C21_CorruptLikeAbsent ==
    /\ Corrupt(file) =>
          /\ canMakeApiCall(file, now) = canMakeApiCall(NoFile, now)
          /\ loadedReviews(file) = loadedReviews(NoFile)
          /\ updateCounters(file, now) = updateCounters(NoFile, now)
    /\ \A c \in Callers :
          /\ (svc = "apify" /\ ~IsNull(call[c].gate) /\ Corrupt(Val(call[c].gate).file)
              => /\ Val(call[c].gate).allowed
                 /\ call[c].fileReviews = <<>>
                 /\ call[c].live = 1)
          /\ (svc = "apify" /\ Done(c) /\ ~IsNull(call[c].updated)
                  /\ Corrupt(Val(call[c].updated).before) /\ Val(call[c].updated).wrote
              => /\ FirstCount(Val(call[c].updated))
                 /\ call[c].result.kind = "ret")

\* a call found the document corrupt, was let through the gate, fetched, and
\* updateCounters wrote both counters with count 1
C21_Witness ==
    \E c \in Callers :
        /\ svc = "apify" /\ Done(c)
        /\ Corrupt(call[c].pre.file)
        /\ ~IsNull(call[c].gate) /\ Val(call[c].gate).allowed
        /\ ~IsNull(call[c].updated) /\ Corrupt(Val(call[c].updated).before)
        /\ Val(call[c].updated).wrote
        /\ FirstCount(Val(call[c].updated))

\* C22: when the write of saveReviewsToFile or of updateCounters fails
\* during a successful live fetch, getReviews still returns the freshly
\* fetched reviews and still stores them in the in-memory cache.
C22_WriteFailuresSwallowed ==
    \A c \in Callers :
        /\ svc = "apify" /\ Done(c)
        /\ call[c].upstream = "items" /\ call[c].wfail
        => /\ Len(call[c].freshReviews) > 0
           /\ call[c].result = [kind |-> "ret", data |-> call[c].freshReviews]
           /\ cachedReviews = Some(call[c].freshReviews)
           /\ lastFetchTime = now

\* both writes failed during a fetch of two reviews: the document is as the
\* call found it, and the call returned and cached the two reviews
C22_Witness ==
    \E c \in Callers :
        /\ svc = "apify" /\ Done(c)
        /\ call[c].upstream = "items" /\ call[c].wfail
        /\ ~Val(call[c].saved).wrote /\ ~Val(call[c].updated).wrote
        /\ file = call[c].pre.file
        /\ Len(call[c].result.data) = 2
        /\ cachedReviews = Some(call[c].result.data)

\* C23: every external call made for a call is bounded by a timeout, so
\* every call that has started eventually returns, even when an upstream
\* never responds.
C23_CallsReturn == \A c \in Callers : InProgress(c) ~> Done(c)

\* the part of C23 the chain keeps: every scrapeLiveReviews call returns
ChainCallsReturn == \A c \in Callers : (svc = "live" /\ InProgress(c)) ~> Done(c)

\* the keys of the web service's cache that hold an entry
KeysInUse == {k \in CacheKeys : ~IsNull(cacheMap[k])}

\* C24: the cache map of a GoogleMapsService instance holds at most one
\* entry, under one fixed key, after any sequence of getReviews,
\* getReviewsFromAPI, getReviewsFromWebScraping and clearCache calls.
C24_SingleCacheEntry == Cardinality(KeysInUse) <= 1

\* C28: a cache entry is written only with a review batch produced by a
\* successful live retrieval; the static fallback dataset is never stored
\* as a cache entry.
C28_CacheHoldsLiveOnly ==
    /\ IsWeb =>
          \A k \in CacheKeys :
              ~IsNull(cacheMap[k]) => Val(cacheMap[k]).data # getStaticReviews
    /\ svc = "gms" /\ ~IsNull(cache) => Val(cache).data # getStaticReviews
    /\ svc = "static" /\ ~IsNull(cache) =>
          Val(cache).data # getStaticScrapedReviews(Val(cache).timestamp)

\* the web service alone already stores the static dataset: after a
\* scraping error its entry under 'reviews' holds getStaticReviews()
WebCacheHoldsLiveOnly ==
    IsWeb => \A k \in CacheKeys :
                ~IsNull(cacheMap[k]) => Val(cacheMap[k]).data # getStaticReviews

\* the calls of the scraping services that wait for a pending scrape
Scraping(c) == call[c].pc = "scrape"
Joined(c) == call[c].pc = "join"

\* c has just come out of the scrape it started or joined
Settles(c) == (Scraping(c) \/ Joined(c)) /\ Done(c)'

\* C26: in the non-serverless getReviews of the scraping services at most
\* one scrapeReviews() is in flight; a call that arrives with no valid
\* cache entry while a scrape is in flight starts no scrape of its own, and
\* when the scrape settles it completes with the outcome of the call that
\* started the scrape
C26_SingleFlight ==
    /\ [](Cardinality({c \in Callers : Scraping(c)}) <= 1)
    /\ [](\A c \in Callers :
            svc \in {"gms", "web"} /\ call[c].pc # "idle"
            /\ call[c].pre.active /\ ~call[c].hit => call[c].live = 0)
    /\ [][\A c, d \in Callers :
            Settles(c) /\ (Scraping(d) \/ Joined(d))
            => /\ Done(d)'
               /\ call'[d].result = call'[c].result]_vars

\* one call started a scrape, another joined it, and both came back with
\* the reviews it scraped
C26_Witness ==
    \E c, d \in Callers :
        /\ c # d /\ Done(c) /\ Done(d)
        /\ call[c].live = 1 /\ call[c].upstream = "items"
        /\ call[d].pre.active /\ ~call[d].hit /\ call[d].live = 0
        /\ call[d].result = call[c].result
        /\ call[d].result.kind = "ret" /\ Len(call[d].result.data) > 0

\* C27: 'reviews' is in activeRequests exactly while the call that started
\* the scrape awaits it, so it is removed when the scrape settles, fulfilled
\* or rejected, and it is absent whenever no getReviews call is in progress;
\* a call that then finds no valid cache entry starts a scrape of its own
C27_ActiveRequestCleanup ==
    /\ activeRequests <=> \E c \in Callers : Scraping(c)
    /\ (\A c \in Callers : ~InProgress(c)) => ~activeRequests
    /\ \A c \in Callers :
          svc \in {"gms", "web"} /\ call[c].pc # "idle"
          /\ ~call[c].pre.active /\ ~call[c].hit => call[c].live = 1

\* a scrape was rejected, nothing is pending any more, and a call that came
\* after it started a scrape of its own
C27_Witness ==
    \E c, d \in Callers :
        /\ c # d /\ Done(c) /\ call[c].upstream = "error"
        /\ Scraping(d) /\ ~call[d].pre.active /\ call[d].live = 1
        /\ \A e \in Callers : e # d => ~InProgress(e)

\* the request being handled came to a route and has been answered
Answered(route) == IsMail /\ http.route = route /\ http.pc = "done"

\* the status of the only answer of an answered request
Status == http.responses[1].status

\* a required field of the contact form is missing
FieldMissing ==
    ~truthy(http.body.name) \/ ~truthy(http.body.email) \/ ~truthy(http.body.message)

\* C25: every mail handed to the transporter by POST /api/contact or POST
\* /api/newsletter is addressed to the main recipient and to the reserve
\* recipient
C25_DualRecipients ==
    IsMail =>
        \A i \in 1..Len(http.outbox) :
            /\ truthy(RECIPIENT_EMAIL)
            /\ truthy(RESERVE_EMAIL)
            /\ \E j, k \in 1..Len(http.outbox[i].to) :
                  /\ http.outbox[i].to[j] = Val(RECIPIENT_EMAIL)
                  /\ http.outbox[i].to[k] = Val(RESERVE_EMAIL)

\* the same, for the routes of server.js alone
ServerDualRecipients == svc = "server" => C25_DualRecipients

\* at most one answer per request, exactly one once it is handled; no
\* sendMail without the required fields; 200 only after a completed
\* sendMail, 500 after a failed one
ContactAnswersOnce ==
    http.route = "contact" =>
        /\ Len(http.responses) = (IF http.pc = "done" THEN 1 ELSE 0)
        /\ Len(http.outbox) <= 1
        /\ FieldMissing => http.pc = "done" /\ Status = 400 /\ http.outbox = <<>>
        /\ configurationMissing => http.outbox = <<>>
        /\ http.pc = "done" /\ Status = 200 => http.sendMail = "sent" /\ Len(http.outbox) = 1
        /\ http.sendMail = "failed" => http.pc = "done" /\ Status = 500
        /\ http.sendMail = "sent" => http.pc = "done" /\ Status = 200

\* C29 as stated: POST /api/contact answers each request exactly once;
\* 400 and no sendMail when name, email or message is missing, whatever
\* the configuration; 500 and no sendMail when a required setting is
\* missing; 200 only after sendMail completed, 500 when it failed
C29_ContactGuarded ==
    /\ ContactAnswersOnce
    /\ Answered("contact") /\ ~FieldMissing /\ configurationMissing => Status = 500

\* C29, amended: with a required setting missing no sendMail is called and
\* the answer is 500 unless the request was already refused with 400, for
\* a missing field or for an address the validation service reported
\* invalid
C29_ContactGuardedUnlessInvalid ==
    /\ ContactAnswersOnce
    /\ Answered("contact") /\ ~FieldMissing /\ configurationMissing
       => IF http.seen = "invalid" THEN Status = 400 ELSE Status = 500

\* a complete contact request was answered 500 for a missing setting, and
\* nothing was handed to the transporter
C29_Witness ==
    /\ Answered("contact")
    /\ ~FieldMissing
    /\ configurationMissing
    /\ http.responses = <<[status |-> 500,
                           error |-> "Email service not configured. Please contact administrator."]>>
    /\ http.outbox = <<>>

\* C30: when the validation call of POST /api/contact fails the request is
\* not refused as an invalid address; it goes on to the configuration
\* check and to sendMail as after the answer "valid"
C30_ValidationFailOpen ==
    svc = "app" /\ http.seen = "failed" =>
        /\ \A i \in 1..Len(http.responses) : http.responses[i].error # "Invalid email address"
        /\ IF configurationMissing
           THEN http = configurationChecked([http EXCEPT !.pc = "validating", !.responses = <<>>])
           ELSE /\ http.outbox = <<[to |-> toEmails]>>
                /\ http.pc = "done" => http.sendMail \in {"sent", "failed"}

\* the validation call failed and the message was sent
C30_Witness ==
    /\ svc = "app"
    /\ http.seen = "failed"
    /\ http.sendMail = "sent"
    /\ http.responses = <<[status |-> 200, error |-> ""]>>
====
